---- MODULE Spec2Model ----
(***************************************************************************)
(* Trie-backed autocomplete of frontend/app.js: the Trie, the term index   *)
(* (displayMap / citationsMap), the corpus loader, the suggestion ranker   *)
(* (renderSuggestions) and the input controller (debounce, keys, pointer). *)
(*                                                                         *)
(* src/frontend/app.js holds two builds of the script one after the other: *)
(* lines 1-333 (build "A": keywords and title tokens are indexed, no       *)
(* keyboard cursor) and lines 335-737 (build "B": keywords only, keyboard  *)
(* cursor).  The variable build says which of the two is running.          *)
(*                                                                         *)
(* A string is a sequence of one-character strings: "Ab" is <<"A", "b">>.  *)
(***************************************************************************)
EXTENDS Integers, Sequences, FiniteSets, TLC

VARIABLES
    build,          \* "A" or "B": which build of app.js runs
    pc,             \* position of loadAllTermsAndBuildTrie
    fb,             \* index into FALLBACK_PAPERS of the fallback being fetched
    ndocs,          \* documents of papers the for-of loop has consumed
    trie,           \* the Trie: its nodes (paths from the root) and isWord flags
    displayMap,     \* normalized term -> display string
    citationsMap,   \* normalized term -> weight
    inserted,       \* history: the words of the direct calls of Trie.insert
    once,           \* history: the trie those words give when each term is inserted once
    repeats,        \* history: direct calls of Trie.insert with a term inserted before
    recorded,       \* history: normalized term -> first display, weights recorded
    expected,       \* history: normalized terms of every document of the response
    fetched,        \* history: the fetches made, in order, with their outcomes
    qPrefix,        \* arguments and result of the last direct Trie.suggestions
    qLimit,
    out,
    inputValue,     \* inputEl.value
    focused,        \* inputEl has the focus
    timers,         \* pending timeouts, oldest first: "debounce" or "blur"
    display,        \* suggestionsEl.style.display: "", "none" or "block"
    items,          \* the .suggestion-item children of suggestionsEl
    cursor,         \* currentSelectionIndex (build B)
    pressed,        \* history: arrow keys handled since the panel was rendered or cleared
    href,           \* query last assigned to location.href by doSearch, NoQuery if none
    shownFor,       \* history: the prefix the items were rendered for
    burst,          \* history: input events since the debounce last ran (2: two or more)
    evals,          \* history: runs of the debounced callback since the burst began
    ranks,          \* history: those among them that called renderSuggestions
    firedBlank,     \* history: the last run found the trimmed text empty
    event,          \* history: the handler that ran last and what it called
    dismissed,      \* history: a commit or Escape, and no input or focus event since
    sinceBlur       \* history: the panel was rendered while a blur timeout was pending

loadVars == <<pc, fb, ndocs, fetched>>
indexVars == <<trie, displayMap, citationsMap, recorded, expected>>
trieVars == <<inserted, once, repeats, qPrefix, qLimit, out>>
panelVars == <<display, items, cursor, shownFor, pressed>>
uiVars == <<inputValue, focused, timers, href>>
histVars == <<burst, evals, ranks, firedBlank>>
noteVars == <<dismissed, sinceBlur>>

vars == <<build, loadVars, indexVars, trieVars, panelVars, uiVars, histVars, event,
          noteVars>>

(***************************************************************************)
(* Bounds                                                                  *)
(***************************************************************************)
\* documents consumed by one load
MaxDocs == 2
\* keywords of one document
MaxKw == 2
\* largest citations_count of a document
MaxCite == 2
\* largest limit passed to a direct Trie.suggestions call (the smallest is -1)
MaxLimit == 5
\* direct Trie.insert calls that repeat a term inserted before
MaxRepeat == 2
\* arrow keys handled on one rendered panel
MaxKeys == 4

(***************************************************************************)
(* Strings                                                                 *)
(***************************************************************************)
\* UTF-16 code unit of a character: the order Array.prototype.sort() uses
Code(c) ==
    CASE c = " " -> 32
      [] c = "a" -> 97
      [] c = "b" -> 98
      [] c = "A" -> 65
      [] c = "B" -> 66
      [] c = "E" -> 69
      [] c = "F" -> 70
      [] c = "M" -> 77
      [] c = "N" -> 78
      [] c = "O" -> 79
      [] c = "R" -> 82
      [] c = "S" -> 83
      [] c = "T" -> 84
      [] c = "e" -> 101
      [] c = "f" -> 102
      [] c = "m" -> 109
      [] c = "n" -> 110
      [] c = "o" -> 111
      [] c = "r" -> 114
      [] c = "s" -> 115
      [] c = "t" -> 116

LowerChar(c) ==
    CASE c = "A" -> "a"
      [] c = "B" -> "b"
      [] c = "E" -> "e"
      [] c = "F" -> "f"
      [] c = "M" -> "m"
      [] c = "N" -> "n"
      [] c = "O" -> "o"
      [] c = "R" -> "r"
      [] c = "S" -> "s"
      [] c = "T" -> "t"
      [] OTHER -> c

\* String.prototype.toLowerCase
toLowerCase(s) == [i \in 1..Len(s) |-> LowerChar(s[i])]

IsSpace(c) == c = " "

RECURSIVE trimStart(_)
trimStart(s) ==
    IF s = <<>> THEN s
    ELSE IF IsSpace(Head(s)) THEN trimStart(Tail(s)) ELSE s

RECURSIVE trimEnd(_)
trimEnd(s) ==
    IF s = <<>> THEN s
    ELSE IF IsSpace(s[Len(s)]) THEN trimEnd(SubSeq(s, 1, Len(s) - 1)) ELSE s

\* String.prototype.trim
trim(s) == trimEnd(trimStart(s))

\* s.split(/\s+/): every maximal run of white space is one separator; a
\* separator at either end leaves an empty token there.
RECURSIVE SplitFrom(_, _, _, _)
SplitFrom(s, i, cur, acc) ==
    IF i > Len(s) THEN Append(acc, cur)
    ELSE IF IsSpace(s[i])
         THEN IF i > 1 /\ IsSpace(s[i - 1])
              THEN SplitFrom(s, i + 1, cur, acc)
              ELSE SplitFrom(s, i + 1, <<>>, Append(acc, cur))
         ELSE SplitFrom(s, i + 1, Append(cur, s[i]), acc)

split(s) == SplitFrom(s, 1, <<>>, <<>>)

Prefixes(s) == {SubSeq(s, 1, i) : i \in 0..Len(s)}

IsPrefix(p, s) == Len(p) <= Len(s) /\ SubSeq(s, 1, Len(p)) = p

Range(f) == {f[i] : i \in DOMAIN f}

\* no string: the value of a query that was never made
NoQuery == <<"-">>

(***************************************************************************)
(* Trie.  A TrieNode is named by the path of characters that leads to it   *)
(* from the root; nodes is the set of nodes that exist, words the set of   *)
(* nodes whose isWord is true.                                             *)
(***************************************************************************)
NewTrie == [nodes |-> {<<>>}, words |-> {}]

\* insert flipping isWord of the last node instead of setting it
insertToggle(tr, word) ==
    IF word = <<>> THEN tr
    ELSE LET w == toLowerCase(word)
         IN  [nodes |-> tr.nodes \cup Prefixes(w),
              words |-> IF w \in tr.words THEN tr.words \ {w} ELSE tr.words \cup {w}]

\* Trie.insert(word)
insert(tr, word) ==
    IF word = <<>> THEN tr
    ELSE LET w == toLowerCase(word)
         IN  [nodes |-> tr.nodes \cup Prefixes(w),
              words |-> tr.words \cup {w}]

\* Trie._getNode(prefix) from node `node`, characters i.. of prefix
RECURSIVE GetNodeFrom(_, _, _, _)
GetNodeFrom(tr, node, prefix, i) ==
    IF i > Len(prefix) THEN [found |-> TRUE, node |-> node]
    ELSE IF Append(node, prefix[i]) \notin tr.nodes
         THEN [found |-> FALSE, node |-> <<>>]
         ELSE GetNodeFrom(tr, Append(node, prefix[i]), prefix, i + 1)

getNode(tr, prefix) == GetNodeFrom(tr, <<>>, prefix, 1)

\* Object.keys(node.children)
ChildKeys(tr, node) ==
    {x[Len(x)] : x \in {y \in tr.nodes : Len(y) = Len(node) + 1 /\ IsPrefix(node, y)}}

\* .sort() of a set of one-character keys: ascending code units
RECURSIVE SortKeys(_)
SortKeys(S) ==
    IF S = {} THEN <<>>
    ELSE LET m == CHOOSE x \in S : \A y \in S : Code(x) <= Code(y)
         IN  <<m>> \o SortKeys(S \ {m})

\* Trie._collect(node, prefix, results, limit), and its for loop from keys[i]
RECURSIVE collect(_, _, _, _, _)
RECURSIVE CollectChildren(_, _, _, _, _, _, _)
collect(tr, node, prefix, results, limit) ==
    IF Len(results) >= limit THEN results
    ELSE LET r1 == IF node \in tr.words THEN Append(results, prefix) ELSE results
         IN  CollectChildren(tr, node, prefix, SortKeys(ChildKeys(tr, node)), 1, r1, limit)

CollectChildren(tr, node, prefix, keys, i, results, limit) ==
    IF i > Len(keys) \/ Len(results) >= limit THEN results
    ELSE CollectChildren(tr, node, prefix, keys, i + 1,
             collect(tr, Append(node, keys[i]), Append(prefix, keys[i]), results, limit),
             limit)

\* suggestions without lower-casing the prefix
suggestionsCaseSensitive(tr, prefix, limit) ==
    LET n == getNode(tr, prefix)
    IN  IF n.found THEN collect(tr, n.node, prefix, <<>>, limit) ELSE <<>>

\* suggestions collecting one term more than asked for
suggestionsOffByOne(tr, prefix, limit) ==
    LET p == toLowerCase(prefix)
        n == getNode(tr, p)
    IN  IF n.found THEN collect(tr, n.node, p, <<>>, limit + 1) ELSE <<>>

\* Trie.suggestions(prefix, limit)
suggestions(tr, prefix, limit) ==
    LET p == toLowerCase(prefix)
        n == getNode(tr, p)
    IN  IF n.found THEN collect(tr, n.node, p, <<>>, limit) ELSE <<>>

(***************************************************************************)
(* Term index and corpus loader                                            *)
(***************************************************************************)
EmptyMap == [x \in {} |-> <<>>]

\* Math.max(a, b) with the later value winning outright
MathMaxOverwrite(a, b) == b

\* Math.max(a, b)
MathMax(a, b) == IF a >= b THEN a ELSE b

\* citationsMap[l] || 0
CitationsOf(cm, l) == IF l \in DOMAIN cm THEN cm[l] ELSE 0

\* displayMap[k] || k: a missing entry and an empty display string are falsy
DisplayOf(dm, k) == IF k \in DOMAIN dm /\ dm[k] # <<>> THEN dm[k] ELSE k

\* history kept beside the index: the display string of the first occurrence
\* of the normalized term l, every weight recorded for it, and the last one
Remember(rec, l, t, cite) ==
    IF l \in DOMAIN rec
    THEN [rec EXCEPT ![l] = [first |-> @.first, ws |-> @.ws \cup {cite}, last |-> cite]]
    ELSE (l :> [first |-> t, ws |-> {cite}, last |-> cite]) @@ rec

\* the three statements that enter term t (normalized l) of a document with
\* citation count cite:
\*   trie.insert(t); displayMap[l] = t;
\*   citationsMap[l] = Math.max(citationsMap[l] || 0, cite);
RecordTerm(st, l, t, cite) ==
    [st EXCEPT
        !.trie = insert(st.trie, t),
        !.displayMap = (l :> t) @@ st.displayMap,
        !.citationsMap = (l :> MathMax(CitationsOf(st.citationsMap, l), cite))
                             @@ st.citationsMap,
        !.recorded = Remember(st.recorded, l, t, cite)]

\* the callback folding a plural into its singular: a final "s" is dropped
IngestKeywordStem(st, k, cite) ==
    IF k.kind = "num" THEN [st EXCEPT !.threw = TRUE]
    ELSE LET t == trim(k.s)
             stem == IF t # <<>> /\ t[Len(t)] = "s" THEN SubSeq(t, 1, Len(t) - 1) ELSE t
         IN  IF t = <<>> THEN st ELSE RecordTerm(st, toLowerCase(stem), stem, cite)

\* the callback of (p.keywords || []).forEach for the element k.  k?.trim()
\* throws a TypeError for an element that is neither null nor a string (a
\* number, say); a blank string trims to "" and is skipped.
IngestKeyword(st, k, cite) ==
    IF k.kind = "num" THEN [st EXCEPT !.threw = TRUE]
    ELSE LET t == trim(k.s)
         IN  IF t = <<>> THEN st ELSE RecordTerm(st, toLowerCase(t), t, cite)

\* forEach over the keywords from index i; an exception ends it
RECURSIVE IngestKeywords(_, _, _, _)
IngestKeywords(st, ks, i, cite) ==
    IF i > Len(ks) \/ st.threw THEN st
    ELSE IngestKeywords(IngestKeyword(st, ks[i], cite), ks, i + 1, cite)

\* the callback of p.title.split(/\s+/).forEach in build A
IngestToken(st, tok, cite) == RecordTerm(st, toLowerCase(tok), tok, cite)

RECURSIVE IngestTokens(_, _, _, _)
IngestTokens(st, toks, i, cite) ==
    IF i > Len(toks) THEN st
    ELSE IngestTokens(IngestToken(st, toks[i], cite), toks, i + 1, cite)

\* one iteration of `for (const p of papers)` in build b.  Reading a field of
\* a null document throws; so does forEach on a keywords value that is
\* neither falsy nor an array.
IngestDoc(b, st, p) ==
    IF p.null \/ p.kwKind = "notlist" THEN [st EXCEPT !.threw = TRUE]
    ELSE LET cite == p.cite
             s1 == IF p.kwKind = "absent" THEN st
                   ELSE IngestKeywords(st, p.keywords, 1, cite)
         IN  IF s1.threw THEN s1
             ELSE IF b = "A" /\ p.title # <<>>
                  THEN IngestTokens(s1, split(p.title), 1, cite)
                  ELSE s1

\* the normalized terms a document holds: its keywords that are strings,
\* trimmed and not blank, and in build A the words of its title
TermsOfDoc(b, p) ==
    IF p.null THEN {}
    ELSE { toLowerCase(trim(p.keywords[i].s)) :
             i \in { j \in 1..Len(p.keywords) :
                        p.keywords[j].kind = "str" /\ trim(p.keywords[j].s) # <<>> } }
         \cup (IF b = "A" THEN { toLowerCase(tok) : tok \in Range(split(p.title)) } \ {<<>>}
               ELSE {})

\* the documents a response can hold
KeywordValues ==
    { [kind |-> "str", s |-> <<"A">>], [kind |-> "str", s |-> <<"a">>],
      [kind |-> "str", s |-> <<" ", "b">>], [kind |-> "str", s |-> <<" ">>],
      [kind |-> "num", s |-> <<>>] }

Titles == { <<>>, <<" ", "a">>, <<"A", " ", "b">> }

Cites == 0..MaxCite

KeywordLists == UNION { [1..n -> KeywordValues] : n \in 0..MaxKw }

NullDoc ==
    [null |-> TRUE, kwKind |-> "absent", keywords |-> <<>>, title |-> <<>>, cite |-> 0]

LoadDocs ==
    { [null |-> FALSE, kwKind |-> "list", keywords |-> ks, title |-> ti, cite |-> c] :
          ks \in KeywordLists, ti \in Titles, c \in Cites }
    \cup { [null |-> FALSE, kwKind |-> kk, keywords |-> <<>>, title |-> ti, cite |-> c] :
          kk \in {"absent", "notlist"}, ti \in Titles, c \in Cites }
    \cup { NullDoc }

\* what can follow a document in the response: nothing, or one more document
UnreadDocs ==
    { {},
      { [null |-> FALSE, kwKind |-> "list",
         keywords |-> << [kind |-> "str", s |-> <<"b">>] >>,
         title |-> <<>>, cite |-> 0] } }

\* const FALLBACK_PAPERS
FALLBACK_PAPERS == << "/papers", "backend/papers.json", "papers.json" >>

\* const API_ALL of build b: build A prefixes it with BASE_API
API_ALL(b) ==
    IF b = "A" THEN "https://scholarsearch-backend.onrender.com/api/all"
    ELSE "/api/all"

\* what `await fetch(..)` can come to: fetch rejects; a response whose status
\* is not ok; a response whose status is ok
FetchOutcomes == { "throw", "notok", "ok" }

\* what `await res.json()` can come to: json() rejects; the body is null, []
\* or a non-empty array
JsonOutcomes == { "badjson", "null", "empty", "docs" }

\* the outcome as the history keeps it: no body was obtained ("failed"), or
\* the body that was
ResultOf(o) == IF o \in { "throw", "notok", "badjson" } THEN "failed" ELSE o

\* the fetch left papers empty: the catch, or `if (res.ok)` not taken, or []
LeftEmpty(o) == o \in { "throw", "notok", "badjson", "empty" }

\* where the loader continues after the fetch of API_ALL came to o:
\* `if (!papers.length)` throws on null, enters the fallback loop on an empty
\* papers and goes on to the for-of loop otherwise
AfterPrimary(o) ==
    CASE o = "null" -> [pc |-> "failed", fb |-> 0]
      [] LeftEmpty(o) -> [pc |-> "fallback", fb |-> 1]
      [] OTHER -> [pc |-> "ingest", fb |-> 0]

\* the fallback loop giving up after the first fallback that fails
AfterFallbackGiveUp(i, o) ==
    CASE o \in { "throw", "notok", "badjson" } -> [pc |-> "done", fb |-> i]
      [] o = "null" -> [pc |-> "failed", fb |-> i]
      [] o = "empty" -> [pc |-> "done", fb |-> i]
      [] OTHER -> [pc |-> "ingest", fb |-> i]

\* where the loader continues after the fetch of FALLBACK_PAPERS[i] came to
\* o: a failure goes to the next fallback (the loop ends after the last); a
\* parsed body breaks out of the loop, and then `if (!papers.length) return`
AfterFallback(i, o) ==
    CASE o \in { "throw", "notok", "badjson" } ->
             IF i < Len(FALLBACK_PAPERS)
             THEN [pc |-> "fallback", fb |-> i + 1]
             ELSE [pc |-> "done", fb |-> i]
      [] o = "null" -> [pc |-> "failed", fb |-> i]
      [] o = "empty" -> [pc |-> "done", fb |-> i]
      [] OTHER -> [pc |-> "ingest", fb |-> i]

\* the record of a handler's run: its name, which of clearSuggestions and
\* renderSuggestions it called ("none": neither) with the cursor as it was
\* before that call, and whether it called doSearch
Ran(name, fn, search) ==
    [name |-> name, fn |-> fn, was |-> IF fn = "none" THEN 0 - 1 ELSE cursor,
     doSearch |-> search]

IndexState ==
    [trie |-> trie, displayMap |-> displayMap, citationsMap |-> citationsMap,
     recorded |-> recorded, threw |-> FALSE]

\* the for-of loop is running: no event handler runs until it has returned
LoopRunning == pc = "ingest"

\* loadAllTermsAndBuildTrie up to the end of `await fetch(API_ALL)`: with a
\* response that is ok it goes on to `await res.json()`
LoadPrimary(o) ==
    /\ event' = Ran("load", "none", FALSE)
    /\ UNCHANGED noteVars
    /\ pc = "primary"
    /\ IF o = "ok"
       THEN /\ pc' = "primaryJson"
            /\ UNCHANGED <<fb, fetched>>
       ELSE /\ fetched' = Append(fetched, [src |-> API_ALL(build), result |-> ResultOf(o)])
            /\ pc' = AfterPrimary(o).pc
            /\ fb' = AfterPrimary(o).fb
    /\ UNCHANGED <<build, ndocs, indexVars, trieVars, panelVars, uiVars, histVars>>

\* ... from there to the end of `await res.json()`
LoadPrimaryJson(o) ==
    /\ event' = Ran("load", "none", FALSE)
    /\ UNCHANGED noteVars
    /\ pc = "primaryJson"
    /\ fetched' = Append(fetched, [src |-> API_ALL(build), result |-> ResultOf(o)])
    /\ pc' = AfterPrimary(o).pc
    /\ fb' = AfterPrimary(o).fb
    /\ UNCHANGED <<build, ndocs, indexVars, trieVars, panelVars, uiVars, histVars>>

\* the fallback loop up to the end of `await fetch(p)`, p = FALLBACK_PAPERS[fb]
LoadFallback(o) ==
    /\ event' = Ran("load", "none", FALSE)
    /\ UNCHANGED noteVars
    /\ pc = "fallback"
    /\ IF o = "ok"
       THEN /\ pc' = "fallbackJson"
            /\ UNCHANGED <<fb, fetched>>
       ELSE /\ fetched' = Append(fetched, [src |-> FALLBACK_PAPERS[fb],
                                           result |-> ResultOf(o)])
            /\ pc' = AfterFallback(fb, o).pc
            /\ fb' = AfterFallback(fb, o).fb
    /\ UNCHANGED <<build, ndocs, indexVars, trieVars, panelVars, uiVars, histVars>>

\* ... from there to the end of `await r.json()`
LoadFallbackJson(o) ==
    /\ event' = Ran("load", "none", FALSE)
    /\ UNCHANGED noteVars
    /\ pc = "fallbackJson"
    /\ fetched' = Append(fetched, [src |-> FALLBACK_PAPERS[fb], result |-> ResultOf(o)])
    /\ pc' = AfterFallback(fb, o).pc
    /\ fb' = AfterFallback(fb, o).fb
    /\ UNCHANGED <<build, ndocs, indexVars, trieVars, panelVars, uiVars, histVars>>

\* one iteration of the for-of loop over papers, on the document p; after
\* are the documents that follow p in papers when the iteration throws
Ingest(p, after) ==
    /\ event' = Ran("load", "none", FALSE)
    /\ UNCHANGED noteVars
    /\ pc = "ingest"
    /\ ndocs < MaxDocs
    /\ LET st == IngestDoc(build, IndexState, p)
       IN  /\ st.threw \/ after = {}
           /\ expected' = expected \cup TermsOfDoc(build, p)
                              \cup UNION { TermsOfDoc(build, d) : d \in after }
           /\ trie' = st.trie
           /\ displayMap' = st.displayMap
           /\ citationsMap' = st.citationsMap
           /\ recorded' = st.recorded
           /\ pc' = IF st.threw THEN "failed" ELSE "ingest"
    /\ ndocs' = ndocs + 1
    /\ UNCHANGED <<build, fb, fetched, trieVars, panelVars, uiVars, histVars>>

\* the for-of loop has consumed the last document of the non-empty papers
IngestEnd ==
    /\ event' = Ran("load", "none", FALSE)
    /\ UNCHANGED noteVars
    /\ pc = "ingest"
    /\ ndocs >= 1
    /\ pc' = "done"
    /\ UNCHANGED <<build, fb, ndocs, fetched, indexVars, trieVars, panelVars,
                   uiVars, histVars>>

(***************************************************************************)
(* Suggestion ranker                                                       *)
(***************************************************************************)
\* the limit renderSuggestions passes to trie.suggestions
SuggestLimit == 8

\* .map(k => ({key, term: displayMap[k] || k, citations: citationsMap[k] || 0}))
ToItem(dm, cm, k) ==
    [key |-> k, term |-> DisplayOf(dm, k), citations |-> CitationsOf(cm, k)]

\* x put into a list sorted by (a, b) => b.citations - a.citations, behind
\* the elements it does not sort before (Array.prototype.sort is stable)
RECURSIVE InsertSorted(_, _)
InsertSorted(sorted, x) ==
    IF sorted = <<>> THEN <<x>>
    ELSE IF Head(sorted).citations >= x.citations
         THEN <<Head(sorted)>> \o InsertSorted(Tail(sorted), x)
         ELSE <<x>> \o sorted

\* x put in front of the elements of equal weight
RECURSIVE InsertSortedFront(_, _)
InsertSortedFront(sorted, x) ==
    IF sorted = <<>> THEN <<x>>
    ELSE IF Head(sorted).citations > x.citations
         THEN <<Head(sorted)>> \o InsertSortedFront(Tail(sorted), x)
         ELSE <<x>> \o sorted

RECURSIVE SortFrom(_, _, _)
SortFrom(list, i, acc) ==
    IF i > Len(list) THEN acc
    ELSE SortFrom(list, i + 1, InsertSorted(acc, list[i]))

RECURSIVE SortFromFront(_, _, _)
SortFromFront(list, i, acc) ==
    IF i > Len(list) THEN acc
    ELSE SortFromFront(list, i + 1, InsertSortedFront(acc, list[i]))

\* a sort that is not stable: equal weights come out reversed
SortUnstable(list) == SortFromFront(list, 1, <<>>)

\* .sort((a, b) => b.citations - a.citations)
SortByCitations(list) == SortFrom(list, 1, <<>>)

\* a ranker that collects every match, sorts, and then keeps the best
RankOverfetch(tr, dm, cm, prefix) ==
    LET ks == suggestions(tr, prefix, SuggestLimit + SuggestLimit)
        l == SortByCitations([i \in 1..Len(ks) |-> ToItem(dm, cm, ks[i])])
    IN  SubSeq(l, 1, IF Len(l) < SuggestLimit THEN Len(l) ELSE SuggestLimit)

\* the list renderSuggestions(prefix) builds
Rank(tr, dm, cm, prefix) ==
    LET ks == suggestions(tr, prefix, SuggestLimit)
    IN  SortByCitations([i \in 1..Len(ks) |-> ToItem(dm, cm, ks[i])])

\* clearSuggestions without `currentSelectionIndex = -1`
ClearedKeepCursor ==
    [display |-> "none", items |-> <<>>, cursor |-> cursor, shownFor |-> NoQuery]

\* clearSuggestions()
Cleared ==
    [display |-> "none", items |-> <<>>, cursor |-> 0 - 1, shownFor |-> NoQuery]

\* renderSuggestions without `currentSelectionIndex = -1`
RenderedKeepCursor(prefix) ==
    LET list == Rank(trie, displayMap, citationsMap, prefix)
    IN  IF list = <<>> THEN Cleared
        ELSE [display |-> "block", items |-> list, cursor |-> cursor,
              shownFor |-> prefix]

\* renderSuggestions(prefix): an empty list clears the panel.  Build A has no
\* currentSelectionIndex; there the cursor stays -1.
Rendered(prefix) ==
    LET list == Rank(trie, displayMap, citationsMap, prefix)
    IN  IF list = <<>> THEN Cleared
        ELSE [display |-> "block", items |-> list, cursor |-> 0 - 1,
              shownFor |-> prefix]

SetPanel(pn) ==
    /\ display' = pn.display
    /\ items' = pn.items
    /\ cursor' = pn.cursor
    /\ shownFor' = pn.shownFor
    /\ pressed' = <<>>

(***************************************************************************)
(* Controller: the event handlers of inputEl and the timeouts              *)
(***************************************************************************)
\* the most timeouts pending at once
MaxTimers == 2

\* texts the user leaves in the input
InputTexts == { <<>>, <<"a">>, <<"A", " ">>, <<" ">>, <<"b">> }

CountOf(q, kind) == Cardinality({i \in 1..Len(q) : q[i] = kind})

RemoveAt(q, i) == SubSeq(q, 1, i - 1) \o SubSeq(q, i + 1, Len(q))

\* position of the timeout the handle t of debounce refers to, 0 when it has
\* run: the debounce timeout set last
LastDebounce(q) ==
    IF CountOf(q, "debounce") = 0 THEN 0
    ELSE CHOOSE i \in 1..Len(q) :
             q[i] = "debounce" /\ \A j \in (i + 1)..Len(q) : q[j] # "debounce"

\* debounce that sets its timeout without clearing the one before
DebounceNoClear(q) == Append(q, "debounce")

\* the function debounce returns: clearTimeout(t); t = setTimeout(...)
Debounce(q) ==
    Append(IF LastDebounce(q) = 0 THEN q ELSE RemoveAt(q, LastDebounce(q)),
           "debounce")

\* the event loop is free: no loop of the loader is running.  The listeners
\* and the timeouts stay in place after doSearch has assigned location.href.
Idle == ~LoopRunning

\* doSearch(): the query window.location.href is assigned; a blank text
\* leaves it as it is
DoSearch(value) == IF trim(value) = <<>> THEN href ELSE trim(value)

\* 'input' event: the input holds text, which may be the text it held before
InputEvent(text) ==
    /\ Idle
    /\ focused
    /\ Len(Debounce(timers)) <= MaxTimers
    /\ inputValue' = text
    /\ timers' = Debounce(timers)
    /\ burst' = IF CountOf(timers, "debounce") > 0 THEN 2 ELSE 1
    /\ evals' = IF CountOf(timers, "debounce") > 0 THEN evals ELSE 0
    /\ ranks' = IF CountOf(timers, "debounce") > 0 THEN ranks ELSE 0
    /\ event' = Ran("input", "none", FALSE)
    /\ dismissed' = FALSE
    /\ UNCHANGED <<build, loadVars, indexVars, trieVars, panelVars, focused, href,
                   firedBlank, sinceBlur>>

\* the oldest debounce timeout expires (a blur timeout set before it may
\* still be pending: its delay is longer) and runs the debounced callback
DebounceFire ==
    /\ Idle
    /\ CountOf(timers, "debounce") > 0
    /\ LET i == CHOOSE k \in 1..Len(timers) :
                    timers[k] = "debounce" /\ \A j \in 1..(k - 1) : timers[j] # "debounce"
           q == trim(inputValue)
           pn == IF q = <<>> THEN Cleared ELSE Rendered(q)
       IN  /\ timers' = RemoveAt(timers, i)
           /\ SetPanel(pn)
           /\ evals' = evals + 1
           /\ ranks' = IF q = <<>> THEN ranks ELSE ranks + 1
           /\ firedBlank' = (q = <<>>)
           /\ event' = Ran("debounce", IF q = <<>> THEN "clearSuggestions"
                                       ELSE "renderSuggestions", FALSE)
           /\ sinceBlur' = (pn.display = "block" /\ CountOf(timers, "blur") > 0)
    /\ UNCHANGED <<build, loadVars, indexVars, trieVars, inputValue, focused, href,
                   burst, dismissed>>

\* 'focus' event; build B renders again for the text that is there
FocusEvent ==
    /\ Idle
    /\ ~focused
    /\ focused' = TRUE
    /\ IF build = "B" /\ trim(inputValue) # <<>>
       THEN /\ SetPanel(Rendered(trim(inputValue)))
            /\ event' = Ran("focus", "renderSuggestions", FALSE)
            /\ sinceBlur' = (Rendered(trim(inputValue)).display = "block"
                                /\ CountOf(timers, "blur") > 0)
       ELSE /\ UNCHANGED <<panelVars, sinceBlur>>
            /\ event' = Ran("focus", "none", FALSE)
    /\ dismissed' = FALSE
    /\ UNCHANGED <<build, loadVars, indexVars, trieVars, inputValue, timers, href,
                   histVars>>

\* 'blur' event: setTimeout(clearSuggestions, ...)
BlurEvent ==
    /\ Idle
    /\ focused
    /\ Len(timers) < MaxTimers
    /\ focused' = FALSE
    /\ timers' = Append(timers, "blur")
    /\ event' = Ran("blur", "none", FALSE)
    /\ sinceBlur' = (sinceBlur /\ CountOf(timers, "blur") > 0)
    /\ UNCHANGED <<build, loadVars, indexVars, trieVars, panelVars, inputValue, href,
                   histVars, dismissed>>

\* a blur timeout that clears the panel only if the focus is still lost
BlurFireIfUnfocused ==
    /\ Idle
    /\ timers # <<>>
    /\ Head(timers) = "blur"
    /\ timers' = Tail(timers)
    /\ IF focused THEN UNCHANGED panelVars ELSE SetPanel(Cleared)
    /\ event' = Ran("blurTimeout", "clearSuggestions", FALSE)
    /\ sinceBlur' = FALSE
    /\ UNCHANGED <<build, loadVars, indexVars, trieVars, inputValue, focused, href,
                   histVars, dismissed>>

\* the timeout of a blur expires, every timeout set before it having run
BlurFire ==
    /\ Idle
    /\ timers # <<>>
    /\ Head(timers) = "blur"
    /\ timers' = Tail(timers)
    /\ SetPanel(Cleared)
    /\ event' = Ran("blurTimeout", "clearSuggestions", FALSE)
    /\ sinceBlur' = FALSE
    /\ UNCHANGED <<build, loadVars, indexVars, trieVars, inputValue, focused, href,
                   histVars, dismissed>>

\* the arrow keys stopping at the first and the last item
ArrowKeyNoWrap(key) ==
    /\ Idle
    /\ focused
    /\ build = "B"
    /\ display # "none"
    /\ Len(items) > 0
    /\ Len(pressed) < MaxKeys
    /\ cursor' = IF key = "ArrowDown"
                 THEN (IF cursor + 1 >= Len(items) THEN Len(items) - 1 ELSE cursor + 1)
                 ELSE (IF cursor - 1 < 0 THEN 0 ELSE cursor - 1)
    /\ pressed' = Append(pressed, key)
    /\ event' = Ran(key, "none", FALSE)
    /\ UNCHANGED <<build, loadVars, indexVars, trieVars, display, items, shownFor,
                   uiVars, histVars, noteVars>>

\* 'keydown' ArrowDown or ArrowUp, handled by build B alone
ArrowKey(key) ==
    /\ Idle
    /\ focused
    /\ build = "B"
    /\ display # "none"
    /\ Len(items) > 0
    /\ Len(pressed) < MaxKeys
    /\ cursor' = IF key = "ArrowDown"
                 THEN (IF cursor + 1 >= Len(items) THEN 0 ELSE cursor + 1)
                 ELSE (IF cursor - 1 < 0 THEN Len(items) - 1 ELSE cursor - 1)
    /\ pressed' = Append(pressed, key)
    /\ event' = Ran(key, "none", FALSE)
    /\ UNCHANGED <<build, loadVars, indexVars, trieVars, display, items, shownFor,
                   uiVars, histVars, noteVars>>

\* Enter committing the selected item and then searching for it
EnterKeyThenSearch ==
    /\ Idle
    /\ focused
    /\ IF build = "B" /\ cursor > 0 - 1 /\ display # "none"
       THEN /\ IF cursor < Len(items)
               THEN /\ inputValue' = items[cursor + 1].term
                    /\ SetPanel(Cleared)
                    /\ event' = Ran("Enter", "clearSuggestions", TRUE)
                    /\ href' = DoSearch(items[cursor + 1].term)
                    /\ dismissed' = TRUE
                    /\ sinceBlur' = FALSE
               ELSE /\ UNCHANGED <<inputValue, panelVars, noteVars, href>>
                    /\ event' = Ran("Enter", "none", FALSE)
       ELSE /\ href' = DoSearch(inputValue)
            /\ event' = Ran("Enter", "none", TRUE)
            /\ UNCHANGED <<inputValue, panelVars, noteVars>>
    /\ UNCHANGED <<build, loadVars, indexVars, trieVars, focused, timers, histVars>>

\* 'keydown' Enter: build B commits the selected item when there is one;
\* otherwise, and always in build A, doSearch()
EnterKey ==
    /\ Idle
    /\ focused
    /\ IF build = "B" /\ cursor > 0 - 1 /\ display # "none"
       THEN /\ IF cursor < Len(items)
               THEN /\ inputValue' = items[cursor + 1].term
                    /\ SetPanel(Cleared)
                    /\ event' = Ran("Enter", "clearSuggestions", FALSE)
                    /\ dismissed' = TRUE
                    /\ sinceBlur' = FALSE
               ELSE /\ UNCHANGED <<inputValue, panelVars, noteVars>>
                    /\ event' = Ran("Enter", "none", FALSE)
            /\ UNCHANGED href
       ELSE /\ href' = DoSearch(inputValue)
            /\ event' = Ran("Enter", "none", TRUE)
            /\ UNCHANGED <<inputValue, panelVars, noteVars>>
    /\ UNCHANGED <<build, loadVars, indexVars, trieVars, focused, timers, histVars>>

\* 'keydown' Escape
EscapeKey ==
    /\ Idle
    /\ focused
    /\ SetPanel(Cleared)
    /\ event' = Ran("Escape", "clearSuggestions", FALSE)
    /\ dismissed' = TRUE
    /\ sinceBlur' = FALSE
    /\ UNCHANGED <<build, loadVars, indexVars, trieVars, uiVars, histVars>>

\* pointerdown on the i-th item: the term goes into the input and the panel
\* is cleared; build B then calls doSearch()
PointerDown(i) ==
    /\ Idle
    /\ display = "block"
    /\ i \in 1..Len(items)
    /\ inputValue' = items[i].term
    /\ SetPanel(Cleared)
    /\ href' = IF build = "B" THEN DoSearch(items[i].term) ELSE href
    /\ event' = Ran("pointerdown", "clearSuggestions", build = "B")
    /\ dismissed' = TRUE
    /\ sinceBlur' = FALSE
    /\ UNCHANGED <<build, loadVars, indexVars, trieVars, focused, timers, histVars>>

\* click on searchBtn
SearchClick ==
    /\ Idle
    /\ href' = DoSearch(inputValue)
    /\ event' = Ran("click", "none", TRUE)
    /\ UNCHANGED <<build, loadVars, indexVars, trieVars, panelVars, inputValue,
                   focused, timers, histVars, noteVars>>

(***************************************************************************)
(* Direct use of the Trie                                                  *)
(***************************************************************************)
\* words given to Trie.insert, in their original casing
Words ==
    { <<>>, <<"a">>, <<"A">>, <<"a", "b">>, <<"A", "B">>, <<"a", "b", "a">>,
      <<"b">>, <<"a", " ", "b">> }

\* prefixes asked for
QueryPrefixes ==
    { <<>>, <<"a">>, <<"A">>, <<"a", "B">>, <<"b">>, <<"a", " ">>,
      <<"a", "b", "a", "b">> }

Limits == (0 - 1)..MaxLimit

\* word, or the same term in another casing, was given to Trie.insert before
Repeated(word) == toLowerCase(word) \in {toLowerCase(w) : w \in inserted}

\* trie.insert(word); the result of a query made on the older trie is dropped
TrieInsert(word) ==
    /\ event' = Ran("Trie.insert", "none", FALSE)
    /\ UNCHANGED noteVars
    /\ Repeated(word) => repeats < MaxRepeat
    /\ trie' = insert(trie, word)
    /\ inserted' = inserted \cup {word}
    /\ once' = IF Repeated(word) \/ word = <<>> THEN once ELSE insert(once, word)
    /\ repeats' = IF Repeated(word) THEN repeats + 1 ELSE repeats
    /\ qPrefix' = NoQuery
    /\ qLimit' = 0
    /\ out' = <<>>
    /\ UNCHANGED <<build, loadVars, displayMap, citationsMap, recorded, expected,
                   panelVars, uiVars, histVars>>

TrieSuggest(prefix, limit) ==
    /\ event' = Ran("Trie.suggestions", "none", FALSE)
    /\ UNCHANGED noteVars
    /\ qPrefix' = prefix
    /\ qLimit' = limit
    /\ out' = suggestions(trie, prefix, limit)
    /\ UNCHANGED <<build, loadVars, indexVars, inserted, once, repeats, panelVars,
                   uiVars, histVars>>

InitIndex ==
    /\ trie = NewTrie
    /\ displayMap = EmptyMap
    /\ citationsMap = EmptyMap
    /\ inserted = {}
    /\ once = NewTrie
    /\ repeats = 0
    /\ recorded = EmptyMap
    /\ expected = {}
    /\ qPrefix = NoQuery
    /\ qLimit = 0
    /\ out = <<>>

\* the page as the script finds it: an empty input, nothing scheduled, the
\* panel just created (its style.display is still the empty string)
InitPage ==
    /\ inputValue = <<>>
    /\ focused = FALSE
    /\ timers = <<>>
    /\ display = ""
    /\ items = <<>>
    /\ cursor = 0 - 1
    /\ href = NoQuery
    /\ shownFor = NoQuery
    /\ pressed = <<>>
    /\ event = [name |-> "init", fn |-> "none", was |-> 0 - 1, doSearch |-> FALSE]
    /\ dismissed = FALSE
    /\ sinceBlur = FALSE
    /\ burst = 0
    /\ evals = 0
    /\ ranks = 0
    /\ firedBlank = FALSE

InitTrie ==
    /\ build = "B"
    /\ pc = "done"
    /\ fb = 0
    /\ ndocs = 0
    /\ fetched = <<>>
    /\ InitIndex
    /\ InitPage

NextTrie ==
    \/ \E word \in Words : TrieInsert(word)
    \/ \E prefix \in QueryPrefixes, limit \in Limits : TrieSuggest(prefix, limit)

SpecTrie == InitTrie /\ [][NextTrie]_vars

(***************************************************************************)
(* The page: loader and controller together, on a small library            *)
(***************************************************************************)
Kw(str) == [kind |-> "str", s |-> str]

Doc(ks, ti, c) ==
    [null |-> FALSE, kwKind |-> "list", keywords |-> ks, title |-> ti, cite |-> c]

PageDocs ==
    { Doc(<< Kw(<<"A", "b">>), Kw(<<"a">>) >>, <<"b">>, 1),
      NullDoc }

Init ==
    /\ build \in {"A", "B"}
    /\ pc = "primary"
    /\ fb = 0
    /\ ndocs = 0
    /\ fetched = <<>>
    /\ InitIndex
    /\ InitPage

Next ==
    \/ \E o \in FetchOutcomes : LoadPrimary(o)
    \/ \E o \in JsonOutcomes : LoadPrimaryJson(o)
    \/ \E o \in FetchOutcomes : LoadFallback(o)
    \/ \E o \in JsonOutcomes : LoadFallbackJson(o)
    \/ \E p \in PageDocs : Ingest(p, {})
    \/ IngestEnd
    \/ \E text \in InputTexts : InputEvent(text)
    \/ DebounceFire
    \/ FocusEvent
    \/ BlurEvent
    \/ BlurFire
    \/ \E key \in {"ArrowDown", "ArrowUp"} : ArrowKey(key)
    \/ EnterKey
    \/ EscapeKey
    \/ \E i \in 1..SuggestLimit : PointerDown(i)
    \/ SearchClick

Spec == Init /\ [][Next]_vars

(***************************************************************************)
(* The controller, on a library of one document                            *)
(***************************************************************************)
PanelDocs ==
    { Doc(<< Kw(<<"A", "b">>), Kw(<<"a">>), Kw(<<"a", " ", "b">>) >>, <<"b">>, 1) }

\* the texts typed: one that matches and a blank one
PanelTexts == { <<"a">>, <<" ">> }

NextPanel ==
    \/ \E o \in FetchOutcomes : LoadPrimary(o)
    \/ \E o \in JsonOutcomes : LoadPrimaryJson(o)
    \/ \E o \in FetchOutcomes : LoadFallback(o)
    \/ \E o \in JsonOutcomes : LoadFallbackJson(o)
    \/ \E p \in PanelDocs : Ingest(p, {})
    \/ IngestEnd
    \/ \E text \in PanelTexts : InputEvent(text)
    \/ DebounceFire
    \/ FocusEvent
    \/ BlurEvent
    \/ BlurFire
    \/ \E key \in {"ArrowDown", "ArrowUp"} : ArrowKey(key)
    \/ EnterKey
    \/ EscapeKey
    \/ \E i \in 1..SuggestLimit : PointerDown(i)
    \/ SearchClick

SpecPanel == Init /\ [][NextPanel]_vars

\* The for-of loop is synchronous code and runs to its end; a timeout that is
\* due expires.
\* the steps of Ingest and IngestEnd, told by what they do to pc and ndocs
LoopStep ==
    /\ pc = "ingest"
    /\ \/ ndocs < MaxDocs /\ ndocs' = ndocs + 1 /\ pc' \in {"ingest", "failed"}
       \/ ndocs >= 1 /\ ndocs' = ndocs /\ pc' = "done"

\* the steps of DebounceFire, told by the timeout they remove and the handler
\* they record
DebounceExpiry ==
    /\ Idle
    /\ CountOf(timers, "debounce") > 0
    /\ \E i \in 1..Len(timers) :
          /\ timers[i] = "debounce"
          /\ \A j \in 1..(i - 1) : timers[j] # "debounce"
          /\ timers' = RemoveAt(timers, i)
    /\ event' = Ran("debounce", IF trim(inputValue) = <<>> THEN "clearSuggestions"
                                ELSE "renderSuggestions", FALSE)

SpecPanelFair ==
    /\ SpecPanel
    /\ WF_<<pc, ndocs>>(LoopStep)
    /\ WF_<<timers, event>>(DebounceExpiry)
    /\ WF_vars(BlurFire)

(***************************************************************************)
(* Terms that differ in case and terms that differ in number               *)
(***************************************************************************)
Transformer == <<"T", "r", "a", "n", "s", "f", "o", "r", "m", "e", "r">>

transformers == <<"t", "r", "a", "n", "s", "f", "o", "r", "m", "e", "r", "s">>

TRANSFORMER == <<"T", "R", "A", "N", "S", "F", "O", "R", "M", "E", "R">>

TermDocs ==
    { Doc(<< Kw(Transformer) >>, <<>>, 50),
      Doc(<< Kw(transformers) >>, <<>>, 10),
      Doc(<< Kw(TRANSFORMER) >>, <<>>, 20) }

TermTexts ==
    { <<"t", "r", "a", "n", "s">>, <<"T", "r", "a", "n", "s", " ">>, transformers }

NextTerms ==
    \/ \E o \in FetchOutcomes : LoadPrimary(o)
    \/ \E o \in JsonOutcomes : LoadPrimaryJson(o)
    \/ \E o \in FetchOutcomes : LoadFallback(o)
    \/ \E o \in JsonOutcomes : LoadFallbackJson(o)
    \/ \E p \in TermDocs : Ingest(p, {})
    \/ IngestEnd
    \/ FocusEvent
    \/ BlurEvent
    \/ BlurFire
    \/ \E text \in TermTexts : InputEvent(text)
    \/ DebounceFire

SpecTerms == Init /\ [][NextTerms]_vars

(***************************************************************************)
(* The ranker, on corpora with more matches than the limit                 *)
(***************************************************************************)
RankKeywords ==
    { << <<"a", "b", "a">>, <<"a">>, <<"a", " ", "b">>, <<"a", "b">> >>,
      << <<"a", "a", "b">>, <<"a", "a">>, <<"a", "b", "a", "b">>, <<"a", "a", "a">>,
         <<"b">>, <<"A", "b">> >>,
      << <<"a", "b", "b">> >>,
      << <<"a", "b", "a", "b">>, <<"a", "b", "a">>, <<"a", "b">>, <<"a", "a", "b">>,
         <<"a", "a", "a">>, <<"a", "a">>, <<"a", " ", "b">>, <<"a">> >> }

RankDocs ==
    { Doc([i \in 1..Len(ks) |-> Kw(ks[i])], <<>>, c) : ks \in RankKeywords, c \in Cites }

RankTexts == { <<"a">>, <<"a", "B">>, <<"b">> }

NextRank ==
    \/ \E o \in FetchOutcomes : LoadPrimary(o)
    \/ \E o \in JsonOutcomes : LoadPrimaryJson(o)
    \/ \E o \in FetchOutcomes : LoadFallback(o)
    \/ \E o \in JsonOutcomes : LoadFallbackJson(o)
    \/ \E p \in RankDocs : Ingest(p, {})
    \/ IngestEnd
    \/ FocusEvent
    \/ \E text \in RankTexts : InputEvent(text)
    \/ DebounceFire

SpecRank == Init /\ [][NextRank]_vars

(***************************************************************************)
(* The loader alone, on every response                                     *)
(***************************************************************************)
InitLoad ==
    /\ build \in {"A", "B"}
    /\ pc = "primary"
    /\ fb = 0
    /\ ndocs = 0
    /\ fetched = <<>>
    /\ InitIndex
    /\ InitPage

NextLoad ==
    \/ \E o \in FetchOutcomes : LoadPrimary(o)
    \/ \E o \in JsonOutcomes : LoadPrimaryJson(o)
    \/ \E o \in FetchOutcomes : LoadFallback(o)
    \/ \E o \in JsonOutcomes : LoadFallbackJson(o)
    \/ \E p \in LoadDocs, after \in UnreadDocs : Ingest(p, after)
    \/ IngestEnd

SpecLoad == InitLoad /\ [][NextLoad]_vars

(***************************************************************************)
(* Claims about the loader and the index (SpecLoad)                        *)
(***************************************************************************)
IndexEmpty ==
    trie = NewTrie /\ DOMAIN displayMap = {} /\ DOMAIN citationsMap = {}

\* C1: trie/index co-maintenance.  Once the loader has run, in build A and
\* in build B, the strings spelled by the terminal nodes of the trie are
\* exactly the keys of displayMap and of citationsMap.
C1_TrieIndexAgree ==
    pc = "done" =>
        /\ trie.words = DOMAIN displayMap
        /\ trie.words = DOMAIN citationsMap

\* C2: first writer wins.  The display string of every index entry is the
\* one of the first occurrence of its normalized term in the corpus.
C2_FirstWriterWins ==
    \A l \in DOMAIN displayMap : displayMap[l] = recorded[l].first

\* C4: atomic load.  When the loader has finished or failed, the index holds
\* the terms of every document of the response, or nothing at all.
C4_AtomicLoad ==
    pc \in {"done", "failed"} =>
        \/ IndexEmpty
        \/ expected \subseteq (trie.words \cap DOMAIN displayMap)

SetMax(S) == CHOOSE x \in S : \A y \in S : y <= x

WeightIsMax ==
    \A l \in DOMAIN citationsMap :
        l \in DOMAIN recorded /\ citationsMap[l] = SetMax(recorded[l].ws)

WeightGrows ==
    \A l \in DOMAIN citationsMap :
        l \in DOMAIN citationsMap' /\ citationsMap'[l] >= citationsMap[l]

\* C10: the weight is the maximum of the contributions.  The weight of a
\* term is always the largest citation count recorded for it, whatever the
\* order in which the documents arrived (the set of the weights recorded
\* does not depend on it, and every order is a behaviour), and no step of
\* the loader lowers a stored weight.
C10_WeightIsMax == []WeightIsMax /\ [][WeightGrows]_vars

\* a term whose largest weight was recorded before a smaller one
C10_Witness ==
    \E l \in DOMAIN citationsMap :
        /\ Cardinality(recorded[l].ws) >= 2
        /\ recorded[l].last < citationsMap[l]
        /\ recorded[l].last > 0

(***************************************************************************)
(* Claims about the Trie (SpecTrie)                                        *)
(***************************************************************************)
\* the terms the trie was given; insert does nothing with the empty word
InsertedTerms == {toLowerCase(w) : w \in inserted \ {<<>>}}

MatchesOf(p) == {t \in InsertedTerms : IsPrefix(toLowerCase(p), t)}

\* s sorts before t: s is a proper prefix of t, or s has the smaller code unit
\* at the first position where they differ
LexLess(s, t) ==
    \/ Len(s) < Len(t) /\ IsPrefix(s, t)
    \/ \E k \in 1..Len(s) :
          /\ k <= Len(t)
          /\ SubSeq(s, 1, k - 1) = SubSeq(t, 1, k - 1)
          /\ Code(s[k]) < Code(t[k])

\* C6: prefix completeness.  After suggestions(p, limit) with limit at least
\* the number of inserted terms that lower-case(p) is a prefix of, every such
\* term is in the result, in its lower-cased form.
C6_PrefixComplete ==
    (qPrefix # NoQuery /\ qLimit >= Cardinality(MatchesOf(qPrefix)))
        => \A t \in MatchesOf(qPrefix) : t \in Range(out)

\* a query with an upper-case prefix, exactly as many matches as the limit,
\* one of them the extension of another
C6_Witness ==
    /\ qPrefix = <<"A">>
    /\ qLimit = 4
    /\ Cardinality(MatchesOf(qPrefix)) = 4
    /\ Len(out) = 4
    /\ <<"A", "B">> \in inserted

\* C7: result bound and order.  suggestions(prefix, limit) returns at most
\* limit terms, none when limit <= 0, and returns them in ascending
\* lexicographic order, a term before its extensions.
C7_BoundedAndSorted ==
    qPrefix # NoQuery =>
        /\ qLimit >= 0 => Len(out) <= qLimit
        /\ qLimit <= 0 => out = <<>>
        /\ \A i, j \in 1..Len(out) : i < j => LexLess(out[i], out[j])

\* a query cut short by its limit: more terms match than were returned
C7_Witness ==
    /\ qPrefix # NoQuery
    /\ qLimit = 3
    /\ Len(out) = 3
    /\ Cardinality(MatchesOf(qPrefix)) > 3
    /\ \E i \in 1..2 : IsPrefix(out[i], out[i + 1])

\* C11: inserting a term again, any number of times and in any casing, leaves
\* the trie (nodes and terminal flags) and the result of Trie.suggestions for
\* every prefix and limit as they are after inserting it once; inserting the
\* empty term changes nothing.
C11_InsertIdempotent ==
    /\ trie = once
    /\ \A p \in QueryPrefixes, l \in Limits :
          suggestions(trie, p, l) = suggestions(once, p, l)
    /\ \A w \in inserted : insert(trie, w) = trie
    /\ insert(trie, <<>>) = trie

\* terms inserted again (the same words, and in the other casing), next to
\* other terms and the empty term, and a query that returns such a term
C11_Witness ==
    /\ repeats = MaxRepeat
    /\ {<<"a", "b">>, <<"A", "B">>, <<>>, <<"a">>} \subseteq inserted
    /\ qPrefix = <<"a">>
    /\ <<"a", "b">> \in Range(out)

(***************************************************************************)
(* Claims about the ranker (SpecRank)                                      *)
(***************************************************************************)
\* position of the normalized term k in the enumeration of the trie
PosIn(seq, k) == CHOOSE i \in 1..Len(seq) : seq[i] = k

\* C8: rank ordering.  The list renderSuggestions shows is sorted by
\* descending weight, and entries of equal weight are in the order in which
\* the trie enumerated them.
C8_RankOrder ==
    display = "block" =>
        LET enum == suggestions(trie, shownFor, SuggestLimit)
        IN  \A i, j \in 1..Len(items) :
                i < j =>
                    /\ items[i].citations >= items[j].citations
                    /\ items[i].citations = items[j].citations
                           => PosIn(enum, items[i].key) < PosIn(enum, items[j].key)

\* a full list with different weights, the heaviest entry not the first the
\* trie enumerated, and two neighbours of equal weight that the enumeration
\* had apart
C8_Witness ==
    /\ display = "block"
    /\ Len(items) = SuggestLimit
    /\ items[1].citations > items[SuggestLimit].citations
    /\ LET enum == suggestions(trie, shownFor, SuggestLimit)
       IN  /\ PosIn(enum, items[1].key) > 1
           /\ \E i \in 1..(Len(items) - 1) :
                 /\ items[i].citations = items[i + 1].citations
                 /\ PosIn(enum, items[i + 1].key) > PosIn(enum, items[i].key) + 1

\* the index keys that prefix p matches
IndexMatches(p) == {l \in DOMAIN citationsMap : IsPrefix(toLowerCase(p), l)}

\* the n members of S that sort first
FirstLex(S, n) == {t \in S : Cardinality({u \in S : LexLess(u, t)}) < n}

\* C9: candidate window.  The suggestions shown are always among the first
\* SuggestLimit matches in lexicographic order; a match of higher weight that
\* sorts behind them is not shown (the witness is such a state).
C9_CandidateWindow ==
    display = "block" =>
        {items[i].key : i \in 1..Len(items)}
            \subseteq FirstLex(IndexMatches(shownFor), SuggestLimit)

\* a match that is not shown and outweighs everything shown
C9_Witness ==
    /\ display = "block"
    /\ \E l \in IndexMatches(shownFor) :
          /\ l \notin {items[i].key : i \in 1..Len(items)}
          /\ \A i \in 1..Len(items) : citationsMap[l] > items[i].citations

(***************************************************************************)
(* Claims about the identity of terms (SpecTerms)                          *)
(***************************************************************************)
\* the corpus [{keywords: ["Transformer"], citations_count: 50},
\* {keywords: ["transformers"], citations_count: 10}] has been loaded
ScenarioLoaded ==
    /\ pc = "done"
    /\ ndocs = 2
    /\ expected = {toLowerCase(Transformer), transformers}
    /\ recorded[toLowerCase(Transformer)].first = Transformer
    /\ recorded[toLowerCase(Transformer)].ws = {50}

\* C17: the suggestions shown for a prefix are one entry for each lower-cased
\* keyword of the documents that the prefix matches: keywords that differ in
\* case alone share an entry, keywords that differ otherwise have their own.
\* With "Transformer" (50) and "transformers" (10) loaded the text "trans"
\* yields {Transformer, 50} followed by {transformers, 10}.
C17_TermIdentity ==
    /\ display = "block" =>
          LET M == {l \in expected : IsPrefix(toLowerCase(shownFor), l)}
          IN  /\ Len(items) = Cardinality(M)
              /\ {items[i].key : i \in 1..Len(items)} = M
    /\ (ScenarioLoaded /\ event.fn # "none" /\ event.name # "blurTimeout"
            /\ trim(inputValue) = <<"t", "r", "a", "n", "s">>) =>
          /\ display = "block"
          /\ items = << [key |-> toLowerCase(Transformer), term |-> Transformer,
                         citations |-> 50],
                        [key |-> transformers, term |-> transformers,
                         citations |-> 10] >>

\* the two-document corpus is loaded and the debounced callback has rendered
\* the two suggestions for "trans"
C17_Witness ==
    /\ ScenarioLoaded
    /\ event.name = "debounce"
    /\ inputValue = <<"t", "r", "a", "n", "s">>
    /\ display = "block"
    /\ Len(items) = 2
    /\ items[1].term = Transformer /\ items[1].citations = 50
    /\ items[2].term = transformers /\ items[2].citations = 10

(***************************************************************************)
(* Claims about the controller (SpecPanel)                                 *)
(***************************************************************************)
None == 0 - 1

\* where a key takes the cursor among n suggestions: ArrowDown from none to
\* 0 and on by one, from n - 1 to 0; ArrowUp back by one, from 0 and from
\* none to n - 1
Step(from, key, n) ==
    IF key = "ArrowDown"
    THEN (IF from = None \/ from = n - 1 THEN 0 ELSE from + 1)
    ELSE (IF from = None \/ from = 0 THEN n - 1 ELSE from - 1)

\* ... and the first i keys of ks, from none
RECURSIVE Walk(_, _, _)
Walk(ks, i, n) == IF i = 0 THEN None ELSE Step(Walk(ks, i - 1, n), ks[i], n)

\* C12: while the panel is visible with n >= 1 suggestions the cursor is where
\* the arrow keys pressed since it was rendered take it from none, ArrowDown
\* moving none to 0, i to i + 1 and n - 1 to 0, ArrowUp moving i to i - 1 and 0
\* and none to n - 1; four ArrowDown on three suggestions leave it at 0.
C12_CursorWraps ==
    /\ (display # "none" /\ Len(items) >= 1)
          => cursor = Walk(pressed, Len(pressed), Len(items))
    /\ pressed # <<>> => (display # "none" /\ Len(items) >= 1)
    /\ (Len(items) = 3 /\ Len(pressed) = 4
            /\ \A i \in 1..4 : pressed[i] = "ArrowDown") => cursor = 0

\* three suggestions, ArrowDown pressed four times from none
C12_Witness ==
    /\ display = "block"
    /\ Len(items) = 3
    /\ pressed = <<"ArrowDown", "ArrowDown", "ArrowDown", "ArrowDown">>
    /\ cursor = 0

\* the panel is cleared and no cursor is set
Dismissed == display = "none" /\ items = <<>> /\ cursor = None

\* C13: Enter with a cursor set and the panel visible puts the display term of
\* the selected entry into the input, clears the panel, sets the cursor to
\* none and does not call the search action; Enter with no cursor set calls
\* the search action and leaves the input text as it is.
C13_EnterDispatch ==
    [][event'.name = "Enter" =>
          /\ (cursor # None /\ display # "none") =>
                /\ cursor + 1 \in 1..Len(items)
                /\ inputValue' = items[cursor + 1].term
                /\ Dismissed'
                /\ ~event'.doSearch
                /\ href' = href
          /\ cursor = None =>
                /\ event'.doSearch
                /\ href' = DoSearch(inputValue)
                /\ inputValue' = inputValue
                /\ UNCHANGED panelVars]_vars

\* Enter has committed the third of three suggestions: its display term
\* "Ab" is in the input, which held another text
C13_Witness ==
    /\ event.name = "Enter"
    /\ event.fn = "clearSuggestions"
    /\ event.was = 2
    /\ ~event.doSearch
    /\ inputValue = <<"A", "b">>
    /\ Dismissed
    /\ href = NoQuery

\* C14: a pointer selection of a rendered entry does what Enter does with the
\* cursor on that entry: the entry's display term goes into the input, the
\* panel is cleared, the cursor becomes none, and nothing else happens; the
\* search action is not called and the page stays.
C14_PointerCommit ==
    [][event'.name = "pointerdown" =>
          /\ \E i \in 1..Len(items) : inputValue' = items[i].term
          /\ Dismissed'
          /\ ~event'.doSearch
          /\ href' = href
          /\ UNCHANGED <<focused, timers, indexVars, loadVars>>]_vars

\* C15: Escape clears the panel and sets the cursor to none at once; after a
\* loss of focus the panel is eventually cleared with cursor none, the delayed
\* clear of the blur doing so when it runs; and the debounce timeout expiring
\* on a blank trimmed text clears the panel, cursor none, without a rank.
C15_Dismissal ==
    /\ [](event.name = "Escape" => Dismissed)
    /\ [](event.name = "blurTimeout" => Dismissed)
    /\ (CountOf(timers, "blur") > 0) ~> Dismissed
    /\ []((event.name = "debounce" /\ trim(inputValue) = <<>>) =>
              (Dismissed /\ event.fn = "clearSuggestions" /\ firedBlank))

\* the delayed clear of a blur has run on a panel whose cursor was on the
\* second suggestion
C15_Witness ==
    /\ event.name = "blurTimeout"
    /\ event.was = 1
    /\ ~focused
    /\ Dismissed

\* C16: a handler that has called renderSuggestions (whether it rendered a
\* list or ended up clearing) or clearSuggestions leaves the cursor at none
\* (-1), whatever the cursor was before.
C16_CursorReset == event.fn \in {"renderSuggestions", "clearSuggestions"} => cursor = None

\* renderSuggestions has rebuilt a non-empty list while the cursor was on the
\* second suggestion of the list before
C16_Witness ==
    /\ event.fn = "renderSuggestions"
    /\ event.was = 1
    /\ display = "block"
    /\ Len(items) >= 2
    /\ cursor = None

\* C18: after a commit (Enter with a cursor set, or a pointer selection) or an
\* Escape the panel stays hidden with cursor none until the next input or
\* focus event; a debounce timeout that was pending does not open it again.
C18_StaysDismissed == dismissed => (display = "none" /\ cursor = None)

\* C19: the delayed clear of a blur clears only the panel that lost the
\* focus: when suggestions have been rendered again since the blur and the
\* input is focused, the expiry of the stale blur timeout leaves that panel
\* and its cursor as they are.
C19_StaleBlurHarmless ==
    [][(event'.name = "blurTimeout" /\ focused /\ sinceBlur /\ display = "block")
          => UNCHANGED <<display, items, cursor>>]_vars

\* C20: the cursor is none (-1) or an index i with 0 <= i < n, n the number
\* of rendered suggestion items; and it is other than none only while the
\* panel is visible and n >= 1.
C20_CursorInBounds ==
    /\ cursor = None \/ (0 <= cursor /\ cursor < Len(items))
    /\ cursor # None => (display = "block" /\ Len(items) >= 1)

\* the cursor on the last of three suggestions, reached by ArrowUp from none
C20_Witness ==
    /\ display = "block"
    /\ Len(items) = 3
    /\ cursor = 2
    /\ pressed = <<"ArrowUp">>

(***************************************************************************)
(* Claims about the page (Spec)                                            *)
(***************************************************************************)
Pending == CountOf(timers, "debounce")

ShowsCurrentText ==
    (display = "block" /\ Pending = 0) =>
        /\ shownFor = trim(inputValue)
        /\ items = Rank(trie, displayMap, citationsMap, trim(inputValue))

\* C3 as claimed: at most one debounce timeout is pending; once a burst of
\* input events is over, exactly one rank has been performed; and what is
\* shown is the suggestions for the text the input holds.
C3_OneRankPerBurst ==
    /\ Pending <= 1
    /\ (burst > 0 /\ Pending = 0) => (evals = 1 /\ ranks = 1)
    /\ ShowsCurrentText

\* C3, amended: at most one debounce timeout is pending; once a burst of
\* input events is over, the debounced callback has run exactly once, and
\* has performed one rank if the trimmed text was not empty and none if it
\* was (it cleared the panel instead); and what is shown is the suggestions
\* for the text the input holds, never those of an earlier text.
C3_OneEvaluationPerBurst ==
    /\ Pending <= 1
    /\ (burst > 0 /\ Pending = 0) =>
           (evals = 1 /\ ranks = IF firedBlank THEN 0 ELSE 1)
    /\ ShowsCurrentText

\* a burst of two or more input events, over, with its one rank on show
C3_Witness ==
    /\ burst = 2
    /\ Pending = 0
    /\ evals = 1
    /\ ranks = 1
    /\ display = "block"
    /\ Len(items) >= 2
    /\ shownFor = <<"A">>

Sources == <<API_ALL(build)>> \o FALLBACK_PAPERS

AllSourcesFailed ==
    /\ Len(fetched) = Len(Sources)
    /\ \A i \in 1..Len(fetched) : fetched[i].result = "failed"

\* C5: fallback and silent degradation.  The sources are fetched in their
\* listed order, a fallback only after every source before it failed (the
\* first also when it returned no document), and the next one whenever a
\* fallback failed; when all have failed the loader has returned normally,
\* trie and index are empty, and no query shows a suggestion.
C5_FallbackAndDegrade ==
    /\ Len(fetched) <= Len(Sources)
    /\ \A i \in 1..Len(fetched) : fetched[i].src = Sources[i]
    /\ \A i \in 1..(Len(fetched) - 1) :
           fetched[i].result = "failed" \/ (i = 1 /\ fetched[i].result = "empty")
    /\ (fetched # <<>> /\ fetched[Len(fetched)].result = "failed")
           => (pc \in {"fallback", "fallbackJson"} \/ Len(fetched) = Len(Sources))
    /\ pc \in {"fallback", "fallbackJson"} => fb = Len(fetched)
    /\ AllSourcesFailed =>
           /\ pc = "done"
           /\ IndexEmpty
           /\ display # "block"
           /\ items = <<>>
           /\ \A q \in InputTexts : Rank(trie, displayMap, citationsMap, q) = <<>>

\* every source has failed and a query made since found nothing to show
C5_Witness ==
    /\ AllSourcesFailed
    /\ fetched[1].src = API_ALL(build)
    /\ trim(inputValue) # <<>>
    /\ Pending = 0
    /\ ranks = 1
    /\ display = "none"

====
